---- MODULE Spec2Model ----
(***************************************************************************)
(* Earley chart parsing over a context-free grammar: the grammar tables    *)
(* (cfg.py), the naive engine with its deduction map (naive_earley.py) and *)
(* the shared-prediction engine (fast_earley.py).                          *)
(*                                                                         *)
(* Symbol ids, rule indices, dots and chart positions are 0-based as in    *)
(* the source; TLA+ sequences are 1-based, so every table access adds 1.   *)
(***************************************************************************)
EXTENDS Integers, Sequences, FiniteSets, TLC

VARIABLES
    symbols,        \* Grammar.symbols: id -> Node, symbols[id + 1]
    terminals,      \* Grammar.terminals: set of terminal ids
    rules,          \* Grammar.rules: rules[id + 1] = the alternatives of id
    gerr,           \* outcome of the last add_symbol / add_rule call
    scn,            \* the caller's program: which grammar it builds and feeds
    todo,           \* the build calls the caller has still to make
    phase,          \* "build", "parse", or "noengine" (Earley() raised)
    chart,          \* naive.Earley.chart
    deduced_by,     \* naive.Earley.deduced_by
    fast_chart,     \* fast.Earley.chart
    npc,            \* naive feed: "idle", or "process" inside a process() call
    n_tok,          \* naive feed: the token c being fed
    n_iter,         \* naive process: the items `for it in cur_state` has left
    n_old,          \* naive process: its local `old`
    n_new,          \* naive process: its local `new`
    n_acc,          \* naive feed: its accumulated `new`
    nres,           \* outcome of the last naive feed
    fres,           \* outcome of the last fast feed
    fast_todo,      \* the token the caller has fed to naive and not yet to fast
    fed,            \* ids of the tokens that passed terminal_symbol, in order
    broken,         \* some feed raised inside process()
    pre_chart,      \* naive chart when the last feed call was entered
    pre_deduced_by, \* deduction map when the last feed call was entered
    pre_fast_chart  \* fast chart when the last fast feed call was entered

gvars == <<symbols, terminals, rules, gerr>>
nvars == <<chart, deduced_by, npc, n_tok, n_iter, n_old, n_new, n_acc,
           nres, fed, broken, pre_chart, pre_deduced_by>>
fvars == <<fast_chart, fres, pre_fast_chart>>
vars == <<symbols, terminals, rules, gerr, scn, todo, phase, chart, deduced_by,
          fast_chart, npc, n_tok, n_iter, n_old, n_new, n_acc, nres,
          fres, fast_todo, fed, broken, pre_chart, pre_deduced_by,
          pre_fast_chart>>

(***************************************************************************)
(* Bounds.                                                                 *)
(***************************************************************************)
\* The caller feeds at most this many tokens that pass terminal_symbol.
MaxFeeds == 4

\* The caller of the "free" scenario makes at most this many Grammar calls.
MaxCalls == 3

(***************************************************************************)
(* node.py: a Node is a kind (its class) and a printable symbol.           *)
(***************************************************************************)
NonTerminal(s) == [kind |-> "NonTerminal", name |-> s]

Terminal(s) == [kind |-> "Terminal", name |-> s]

\* Node.__eq__ / __hash__: by the printable symbol alone, whatever the class.
NodeEq(a, b) == a.name = b.name

START == NonTerminal("<start>")

NUL == Terminal("\\0")

(***************************************************************************)
(* cfg.py: Grammar.                                                        *)
(***************************************************************************)
\* `sym in self.symbols.inverse`
Registered(sym) == \E i \in 1..Len(symbols) : NodeEq(symbols[i], sym)

\* `self.symbols.inverse[sym]` (for a registered sym)
Inverse(sym) == (CHOOSE i \in 1..Len(symbols) : NodeEq(symbols[i], sym)) - 1

\* AddSymbolOutcome, were the symbol table a plain dict (no check of the values).
AddSymbolOutcomePlainDict(sym, terminal) ==
    IF sym.name = "" THEN "EmptySymbol"
    ELSE IF /\ sym.kind = "Terminal"
            /\ ~ (Len(symbols) >= Len(rules) \/ Len(rules[Len(symbols) + 1]) = 0)
         THEN "DuplicateTerminalProduction"
    ELSE "ok"

\* The checks add_symbol makes before it writes, in order; "ok" when it writes.
AddSymbolOutcome(sym, terminal) ==
    IF sym.name = "" THEN "EmptySymbol"
    ELSE IF /\ sym.kind = "Terminal"
            /\ ~ (Len(symbols) >= Len(rules) \/ Len(rules[Len(symbols) + 1]) = 0)
         THEN "DuplicateTerminalProduction"
    ELSE IF Registered(sym) THEN "ValueDuplicationError"
    ELSE "ok"

\* AddSymbol, were the terminal set filled by the `terminal` flag.
AddSymbolByFlag(sym, terminal) ==
    LET out == AddSymbolOutcome(sym, terminal) IN
    /\ gerr' = out
    /\ IF out = "ok"
       THEN /\ symbols' = Append(symbols, sym)
            /\ terminals' = IF terminal
                            THEN terminals \cup {Len(symbols)}
                            ELSE terminals
       ELSE UNCHANGED <<symbols, terminals>>
    /\ UNCHANGED rules

\* Grammar.add_symbol(sym, terminal)
AddSymbol(sym, terminal) ==
    LET out == AddSymbolOutcome(sym, terminal) IN
    /\ gerr' = out
    /\ IF out = "ok"
       THEN /\ symbols' = Append(symbols, sym)
            /\ terminals' = IF sym.kind = "Terminal"
                            THEN terminals \cup {Len(symbols)}
                            ELSE terminals
       ELSE UNCHANGED <<symbols, terminals>>
    /\ UNCHANGED rules

\* ConvertRuleOutcome, were `assert sym_id not in self.terminals` left out.
ConvertRuleOutcomeAnyHead(sym, parts) ==
    IF ~ Registered(sym) THEN "UnknownSymbol"
    ELSE IF \E i \in 1..Len(parts) : ~ Registered(parts[i]) THEN "UnknownSymbol"
    ELSE "ok"

\* Grammar.convert_rule: the error it raises, or "ok".
ConvertRuleOutcome(sym, parts) ==
    IF ~ Registered(sym) THEN "UnknownSymbol"
    ELSE IF Inverse(sym) \in terminals THEN "TerminalHasProductions"
    ELSE IF \E i \in 1..Len(parts) : ~ Registered(parts[i]) THEN "UnknownSymbol"
    ELSE "ok"

\* Grammar.convert_rule: the right-hand side as ids.
ConvertParts(parts) == [i \in 1..Len(parts) |-> Inverse(parts[i])]

\* Extended, were the table extended by one entry more than there are symbols.
ExtendedPastSymbols(sym_id) ==
    IF sym_id >= Len(rules)
    THEN rules \o [i \in 1..(Len(symbols) - Len(rules) + 1) |-> <<>>]
    ELSE rules

\* The rule table add_rule works on after its `extend`.
Extended(sym_id) ==
    IF sym_id >= Len(rules)
    THEN rules \o [i \in 1..(Len(symbols) - Len(rules)) |-> <<>>]
    ELSE rules

\* AddRule, were the rule table extended before the parts are resolved.
AddRuleExtendsFirst(sym, parts) ==
    LET out == ConvertRuleOutcome(sym, parts) IN
    /\ gerr' = out
    /\ IF out = "ok"
       THEN LET sym_id == Inverse(sym)
                ext == Extended(sym_id)
            IN  rules' = [ext EXCEPT ![sym_id + 1] = Append(@, ConvertParts(parts))]
       ELSE IF Registered(sym)
       THEN rules' = Extended(Inverse(sym))
       ELSE UNCHANGED rules
    /\ UNCHANGED <<symbols, terminals>>

\* Grammar.add_rule((sym, parts))
AddRule(sym, parts) ==
    LET out == ConvertRuleOutcome(sym, parts) IN
    /\ gerr' = out
    /\ IF out = "ok"
       THEN LET sym_id == Inverse(sym)
                ext == Extended(sym_id)
            IN  rules' = [ext EXCEPT ![sym_id + 1] = Append(@, ConvertParts(parts))]
       ELSE UNCHANGED rules
    /\ UNCHANGED <<symbols, terminals>>

\* Grammar.get_symbol_at_point's "no symbol after the dot".
None == 0 - 1

\* Grammar.get_symbol_at_point(pt)
get_symbol_at_point(pt) ==
    LET rule == rules[pt.sym + 1][pt.rule + 1] IN
    IF pt.dot < Len(rule) THEN rule[pt.dot + 1] ELSE None

\* Grammar.terminal_symbol(c): whether its assertion passes.
IsTerminalSymbol(c) == Registered(c) /\ Inverse(c) \in terminals

(***************************************************************************)
(* The callers: each scenario is a program that builds a grammar with      *)
(* add_symbol / add_rule calls, constructs both engines on it and feeds    *)
(* tokens drawn from a small set.                                          *)
(***************************************************************************)
Sym(sym, terminal) == [op |-> "add_symbol", sym |-> sym, terminal |-> terminal]

Rule(sym, parts) == [op |-> "add_rule", sym |-> sym, parts |-> parts]

\* test_earley.py: toy_grammar()
ToyScript ==
    << Sym(NonTerminal("A"), FALSE), Sym(Terminal("a"), TRUE),
       Sym(Terminal("b"), TRUE), Sym(Terminal("c"), TRUE),
       Rule(NonTerminal("<start>"), <<NonTerminal("A"), NonTerminal("A")>>),
       Rule(NonTerminal("A"), <<NonTerminal("A"), Terminal("a")>>),
       Rule(NonTerminal("A"), <<Terminal("b"), NonTerminal("A")>>),
       Rule(NonTerminal("A"), <<Terminal("c")>>) >>

\* test_earley.py: grammar_1()
BookScript ==
    << Sym(Terminal("book"), TRUE), Sym(Terminal("that"), TRUE),
       Sym(Terminal("flight"), TRUE), Sym(Terminal("a"), TRUE),
       Sym(Terminal("the"), TRUE), Sym(Terminal("meal"), TRUE),
       Sym(Terminal("include"), TRUE), Sym(Terminal("prefer"), TRUE),
       Sym(NonTerminal("NP"), FALSE), Sym(NonTerminal("VP"), FALSE),
       Sym(NonTerminal("Det"), TRUE), Sym(NonTerminal("Nominal"), TRUE),
       Sym(NonTerminal("Noun"), TRUE), Sym(NonTerminal("Verb"), TRUE),
       Rule(NonTerminal("<start>"), <<NonTerminal("NP"), NonTerminal("VP")>>),
       Rule(NonTerminal("<start>"), <<NonTerminal("VP")>>),
       Rule(NonTerminal("NP"), <<NonTerminal("Det"), NonTerminal("Nominal")>>),
       Rule(NonTerminal("Nominal"), <<NonTerminal("Noun")>>),
       Rule(NonTerminal("VP"), <<NonTerminal("Verb")>>),
       Rule(NonTerminal("VP"), <<NonTerminal("Verb"), NonTerminal("NP")>>),
       Rule(NonTerminal("Det"), <<Terminal("that")>>),
       Rule(NonTerminal("Noun"), <<Terminal("book")>>),
       Rule(NonTerminal("Noun"), <<Terminal("flight")>>),
       Rule(NonTerminal("Verb"), <<Terminal("book")>>) >>

\* A start nonterminal that recurs inside its own derivations:
\* <start> -> A b | a,  A -> a <start>
RecScript ==
    << Sym(NonTerminal("A"), FALSE), Sym(Terminal("a"), TRUE),
       Sym(Terminal("b"), TRUE),
       Rule(NonTerminal("<start>"), <<NonTerminal("A"), Terminal("b")>>),
       Rule(NonTerminal("<start>"), <<Terminal("a")>>),
       Rule(NonTerminal("A"), <<Terminal("a"), NonTerminal("<start>")>>) >>

\* An empty right-hand side and a unit cycle: <start> -> A A,  A -> (empty) | A
NullScript ==
    << Sym(NonTerminal("A"), FALSE), Sym(Terminal("a"), TRUE),
       Rule(NonTerminal("<start>"), <<NonTerminal("A"), NonTerminal("A")>>),
       Rule(NonTerminal("A"), << >>),
       Rule(NonTerminal("A"), <<NonTerminal("A")>>) >>

\* An empty right-hand side alone: <start> -> A A,  A -> (empty)
EpsScript ==
    << Sym(NonTerminal("A"), FALSE), Sym(Terminal("a"), TRUE),
       Rule(NonTerminal("<start>"), <<NonTerminal("A"), NonTerminal("A")>>),
       Rule(NonTerminal("A"), << >>) >>

\* A nonterminal registered after the rule table was sized, owning no rule:
\* <start> -> a | A a
GapScript ==
    << Sym(Terminal("a"), TRUE),
       Rule(NonTerminal("<start>"), <<Terminal("a")>>),
       Sym(NonTerminal("A"), FALSE),
       Rule(NonTerminal("<start>"), <<NonTerminal("A"), Terminal("a")>>) >>

\* An ambiguous grammar with a unit cycle: <start> -> A,  A -> A A | a | A
AmbScript ==
    << Sym(NonTerminal("A"), FALSE), Sym(Terminal("a"), TRUE),
       Rule(NonTerminal("<start>"), <<NonTerminal("A")>>),
       Rule(NonTerminal("A"), <<NonTerminal("A"), NonTerminal("A")>>),
       Rule(NonTerminal("A"), <<Terminal("a")>>),
       Rule(NonTerminal("A"), <<NonTerminal("A")>>) >>

\* A unit cycle through two nonterminals: <start> -> A,  A -> B | a,  B -> A
CycScript ==
    << Sym(NonTerminal("A"), FALSE), Sym(NonTerminal("B"), FALSE),
       Sym(Terminal("a"), TRUE),
       Rule(NonTerminal("<start>"), <<NonTerminal("A")>>),
       Rule(NonTerminal("A"), <<NonTerminal("B")>>),
       Rule(NonTerminal("A"), <<Terminal("a")>>),
       Rule(NonTerminal("B"), <<NonTerminal("A")>>) >>

\* An empty alternative predicted in the round before an item that waits for
\* it: <start> -> A | D,  D -> C,  C -> A,  A -> (empty)
OrdScript ==
    << Sym(NonTerminal("A"), FALSE), Sym(NonTerminal("C"), FALSE),
       Sym(NonTerminal("D"), FALSE),
       Rule(NonTerminal("<start>"), <<NonTerminal("A")>>),
       Rule(NonTerminal("<start>"), <<NonTerminal("D")>>),
       Rule(NonTerminal("D"), <<NonTerminal("C")>>),
       Rule(NonTerminal("C"), <<NonTerminal("A")>>),
       Rule(NonTerminal("A"), << >>) >>

\* Flags that contradict the kinds, and a terminal registered once the rule
\* table has been sized: <start> -> A,  A -> a
FlagScript ==
    << Sym(NonTerminal("A"), TRUE),
       Rule(NonTerminal("<start>"), <<NonTerminal("A")>>),
       Sym(Terminal("a"), FALSE),
       Rule(NonTerminal("A"), <<Terminal("a")>>) >>

\* Calls that fail, made by a caller that catches the error and goes on; the
\* grammar it ends with is <start> -> a | a \0
ErrScript ==
    << Sym(Terminal(""), TRUE), Sym(Terminal("<start>"), TRUE),
       Rule(NonTerminal("B"), << >>), Sym(Terminal("a"), TRUE),
       Rule(Terminal("a"), <<Terminal("a")>>),
       Rule(NonTerminal("<start>"), <<NonTerminal("B")>>),
       Rule(NonTerminal("<start>"), <<Terminal("a")>>),
       Rule(NonTerminal("<start>"), <<Terminal("a"), Terminal("\\0")>>) >>

\* The calls the caller of the "free" scenario chooses among, in any order
\* and with repetition: they register one printable form under both kinds,
\* give a rule to a terminal, to an unknown head, and to a known head with a
\* known part before an unknown one.
FreeCalls ==
    { Sym(Terminal("a"), TRUE), Sym(NonTerminal("A"), FALSE),
      Sym(NonTerminal("a"), TRUE),
      Rule(NonTerminal("<start>"), <<Terminal("a")>>),
      Rule(NonTerminal("<start>"), <<NonTerminal("A"), Terminal("a")>>),
      Rule(NonTerminal("A"), << >>),
      Rule(Terminal("a"), <<Terminal("a")>>),
      Rule(NonTerminal("A"), <<Terminal("a"), NonTerminal("B")>>) }

FreeScripts == UNION { [1..n -> FreeCalls] : n \in 0..MaxCalls }

Scenarios ==
    {"toy", "book", "rec", "null", "eps", "gap", "amb", "cyc", "ord", "flag", "err",
     "norules", "free"}

Script(s) ==
    CASE s = "toy" -> ToyScript
      [] s = "book" -> BookScript
      [] s = "rec" -> RecScript
      [] s = "null" -> NullScript
      [] s = "eps" -> EpsScript
      [] s = "gap" -> GapScript
      [] s = "amb" -> AmbScript
      [] s = "cyc" -> CycScript
      [] s = "ord" -> OrdScript
      [] s = "flag" -> FlagScript
      [] s = "err" -> ErrScript
      [] OTHER -> << >>

\* The sequences of Grammar calls a scenario's caller may make.
Scripts(s) == IF s = "free" THEN FreeScripts ELSE {Script(s)}

\* The tokens a scenario's caller passes to feed.
FeedTokens(s) ==
    CASE s = "toy" -> {Terminal("a"), Terminal("b"), Terminal("c"), NUL,
                       Terminal("z"), Terminal("A"), NonTerminal("A")}
      [] s = "book" -> {Terminal("book"), Terminal("that"), Terminal("flight"), NUL}
      [] s = "rec" -> {Terminal("a"), Terminal("b"), NUL, Terminal("A")}
      [] OTHER -> {Terminal("a"), NUL}

(***************************************************************************)
(* cfg.py points, naive_earley.py / fast_earley.py items, deduction.py     *)
(* spans.                                                                  *)
(***************************************************************************)
GrammarPoint(sym, rule, dot) ==
    [kind |-> "GrammarPoint", sym |-> sym, rule |-> rule, dot |-> dot]

StarPoint(sym, done) == [kind |-> "StarPoint", sym |-> sym, done |-> done]

Item(point, beg) == [point |-> point, beg |-> beg]

\* GrammarPoint.proceed / StarPoint.proceed
PointProceed(pt) ==
    IF pt.kind = "GrammarPoint"
    THEN GrammarPoint(pt.sym, pt.rule, pt.dot + 1)
    ELSE StarPoint(pt.sym, TRUE)

\* Item.proceed
proceed(it) == Item(PointProceed(it.point), it.beg)

DeductionSpan(point, b, e) == [point |-> point, span |-> <<b, e>>]

\* A terminal's span holds the bare Symbol as its point.
SymbolPoint(sym) == [kind |-> "Symbol", sym |-> sym]

\* deduction_span, were the range built as (end, beg).
deduction_span_swapped(it, end) == DeductionSpan(it.point, end, it.beg)

\* Item.deduction_span(end)
deduction_span(it, end) == DeductionSpan(it.point, it.beg, end)

NoTok == [kind |-> "none", name |-> ""]

EmptyMap == [k \in {} |-> k]

(***************************************************************************)
(* Earley.__init__ (both engines: the same seeding of chart[0]).           *)
(***************************************************************************)
StartItems ==
    LET start == Inverse(START) IN
    { Item(GrammarPoint(start, rule, 0), 0) : rule \in 0..(Len(rules[start + 1]) - 1) }

(***************************************************************************)
(* naive_earley.py: Earley.process, one iteration of `for it in cur_state`.*)
(***************************************************************************)
\* Completions, were the waiting items looked up in the current state
\* instead of `self.chart[it.beg]`.
CompletionsHere(ch, it) ==
    { proceed(cit) : cit \in { c \in ch[Len(ch)] :
                               get_symbol_at_point(c.point) = it.point.sym } }

\* Lines 75-76: the items waiting at it's origin for it's symbol.
Waiting(ch, it) ==
    { c \in ch[it.beg + 1] : get_symbol_at_point(c.point) = it.point.sym }

\* Lines 74-76: the waiting items, advanced.
Completions(ch, it) == { proceed(cit) : cit \in Waiting(ch, it) }

\* Lines 95-97: one dot-0 item per alternative of dot_sym.
Predictions(dot_sym, cur_pos) ==
    { Item(GrammarPoint(dot_sym, rule, 0), cur_pos) :
        rule \in 0..(Len(rules[dot_sym + 1]) - 1) }

\* RecordAll, were the write `self.deduced_by[span] = by` left out.
RecordAllDropped(ded, keys, by) == ded

\* RecordAll, were `if span not in self.deduced_by` left out.
RecordAllOverwrite(ded, keys, by) ==
    [k \in (DOMAIN ded) \cup keys |-> IF k \in keys THEN by ELSE ded[k]]

\* `if span not in self.deduced_by: self.deduced_by[span] = by`, for each
\* span of keys.
RecordAll(ded, keys, by) ==
    [k \in (DOMAIN ded) \cup keys |-> IF k \in DOMAIN ded THEN ded[k] ELSE by]

\* ProcessItem, were a completion to find the waiting items among what this
\* call of process has put into old so far as well.
ProcessItemSeesOld(ch, ded, it, cur_pos, next_sym) ==
    LET dot_sym == get_symbol_at_point(it.point) IN
    IF dot_sym = None
    THEN LET more == Completions([ch EXCEPT ![Len(ch)] = @ \cup n_old], it) IN
         [old |-> more, new |-> {}, err |-> FALSE,
          ded |-> RecordAll(ded, {deduction_span(nit, cur_pos) : nit \in more},
                            deduction_span(it, cur_pos))]
    ELSE IF dot_sym = next_sym
    THEN LET nit == proceed(it) IN
         [old |-> {}, new |-> {nit}, err |-> FALSE,
          ded |-> RecordAll(ded, {deduction_span(nit, cur_pos + 1)},
                            DeductionSpan(SymbolPoint(dot_sym), cur_pos, cur_pos + 1))]
    ELSE IF dot_sym \notin terminals
    THEN IF dot_sym >= Len(rules)
         THEN [old |-> {}, new |-> {}, err |-> TRUE, ded |-> ded]
         ELSE [old |-> Predictions(dot_sym, cur_pos), new |-> {}, err |-> FALSE,
               ded |-> ded]
    ELSE [old |-> {}, new |-> {}, err |-> FALSE, ded |-> ded]

\* What one iteration adds to old and new, the deduction map it leaves, and
\* whether `self.grammar.rules[dot_sym]` raised IndexError.
ProcessItem(ch, ded, it, cur_pos, next_sym) ==
    LET dot_sym == get_symbol_at_point(it.point) IN
    IF dot_sym = None
    THEN LET more == Completions(ch, it) IN
         [old |-> more, new |-> {}, err |-> FALSE,
          ded |-> RecordAll(ded, {deduction_span(nit, cur_pos) : nit \in more},
                            deduction_span(it, cur_pos))]
    ELSE IF dot_sym = next_sym
    THEN LET nit == proceed(it) IN
         [old |-> {}, new |-> {nit}, err |-> FALSE,
          ded |-> RecordAll(ded, {deduction_span(nit, cur_pos + 1)},
                            DeductionSpan(SymbolPoint(dot_sym), cur_pos, cur_pos + 1))]
    ELSE IF dot_sym \notin terminals
    THEN IF dot_sym >= Len(rules)
         THEN [old |-> {}, new |-> {}, err |-> TRUE, ded |-> ded]
         ELSE [old |-> Predictions(dot_sym, cur_pos), new |-> {}, err |-> FALSE,
               ded |-> ded]
    ELSE [old |-> {}, new |-> {}, err |-> FALSE, ded |-> ded]

(***************************************************************************)
(* fast_earley.py: Earley.process.  It writes nothing but its two result   *)
(* sets, which are unions over the items, so the order of the iteration    *)
(* does not show and the call is computed whole.                           *)
(***************************************************************************)
\* StarWaiting, were `and not cit.point.done` left out.
StarWaitingDoneToo(ch, it) ==
    { c \in ch[it.beg + 1] : /\ c.point.kind = "StarPoint"
                             /\ c.point.sym = it.point.sym }

\* Lines 72-75: the not-done star items of it's symbol at it's origin.
StarWaiting(ch, it) ==
    { c \in ch[it.beg + 1] : /\ c.point.kind = "StarPoint"
                             /\ ~ c.point.done
                             /\ c.point.sym = it.point.sym }

\* Lines 71-75: the waiting star items, advanced.
StarCompletions(ch, it) == { proceed(cit) : cit \in StarWaiting(ch, it) }

\* Lines 95-97: the Grammar-Point items waiting at the star's origin.
FastWaiting(ch, it) ==
    { c \in ch[it.beg + 1] : /\ c.point.kind = "GrammarPoint"
                             /\ get_symbol_at_point(c.point) = it.point.sym }

\* Lines 94-97: the waiting items, advanced.
FastCompletions(ch, it) == { proceed(cit) : cit \in FastWaiting(ch, it) }

\* Whether the iteration for `it` raises IndexError (line 104).
FastRaises(it) ==
    /\ it.point.kind = "StarPoint"
    /\ ~ it.point.done
    /\ it.point.sym >= Len(rules)

\* FastOld, were a Grammar Point to predict the alternatives itself, as the
\* naive engine does, instead of the one Star Point.
FastOldDirect(ch, it, cur_pos, next_sym) ==
    IF it.point.kind = "GrammarPoint"
    THEN LET dot_sym == get_symbol_at_point(it.point) IN
         IF dot_sym = None THEN StarCompletions(ch, it)
         ELSE IF dot_sym = next_sym THEN {}
         ELSE IF dot_sym \notin terminals /\ dot_sym < Len(rules)
              THEN Predictions(dot_sym, cur_pos)
         ELSE {}
    ELSE IF it.point.done THEN FastCompletions(ch, it)
    ELSE Predictions(it.point.sym, cur_pos)

\* What the iteration for `it` adds to old.
FastOld(ch, it, cur_pos, next_sym) ==
    IF it.point.kind = "GrammarPoint"
    THEN LET dot_sym == get_symbol_at_point(it.point) IN
         IF dot_sym = None THEN StarCompletions(ch, it)
         ELSE IF dot_sym = next_sym THEN {}
         ELSE IF dot_sym \notin terminals
              THEN {Item(StarPoint(dot_sym, FALSE), cur_pos)}
         ELSE {}
    ELSE IF it.point.done THEN FastCompletions(ch, it)
    ELSE Predictions(it.point.sym, cur_pos)

\* What the iteration for `it` adds to new.
FastNew(it, next_sym) ==
    IF it.point.kind = "GrammarPoint" /\ get_symbol_at_point(it.point) = next_sym
    THEN {proceed(it)}
    ELSE {}

FastProcess(ch, cur_pos, cur_state, next_sym) ==
    IF \E it \in cur_state : FastRaises(it)
    THEN [old |-> {}, new |-> {}, err |-> TRUE]
    ELSE [old |-> UNION { FastOld(ch, it, cur_pos, next_sym) : it \in cur_state },
          new |-> UNION { FastNew(it, next_sym) : it \in cur_state },
          err |-> FALSE]

\* fast Earley.feed, lines 122-134: process the frontier, merge what is unseen
\* into chart[cur], and go on with it until nothing is unseen.  The locals of
\* a round (r, old) are bound over one-element sets, so that each is computed
\* once per round, as the code computes it.
RECURSIVE FastClose(_, _, _, _)
FastClose(ch, frontier, acc, cid) ==
    LET cur == Len(ch) - 1 IN
    CHOOSE out \in
      { IF r.err
        THEN [chart |-> ch, new |-> {}, err |-> TRUE]
        ELSE CHOOSE more \in
               { IF old = {}
                 THEN [chart |-> ch, new |-> acc \cup r.new, err |-> FALSE]
                 ELSE FastClose([ch EXCEPT ![cur + 1] = @ \cup old], old,
                                acc \cup r.new, cid)
                 : old \in {r.old \ ch[cur + 1]} } : TRUE
        : r \in {FastProcess(ch, cur, frontier, cid)} } : TRUE

(***************************************************************************)
(* The state after Grammar(): <start> is symbol 0, the sentinel symbol 1.  *)
(***************************************************************************)
Init ==
    /\ symbols = <<START, NUL>>
    /\ terminals = {1}
    /\ rules = << >>
    /\ gerr = "ok"
    /\ scn \in Scenarios
    /\ todo \in Scripts(scn)
    /\ phase = "build"
    /\ chart = << >>
    /\ deduced_by = EmptyMap
    /\ fast_chart = << >>
    /\ npc = "idle"
    /\ n_tok = NoTok
    /\ n_iter = {}
    /\ n_old = {}
    /\ n_new = {}
    /\ n_acc = {}
    /\ nres = "none"
    /\ fres = "none"
    /\ fast_todo = NoTok
    /\ fed = << >>
    /\ broken = FALSE
    /\ pre_chart = << >>
    /\ pre_deduced_by = EmptyMap
    /\ pre_fast_chart = << >>

(***************************************************************************)
(* Building the grammar.                                                   *)
(***************************************************************************)
CallAddSymbol ==
    /\ phase = "build"
    /\ todo # << >>
    /\ Head(todo).op = "add_symbol"
    /\ AddSymbol(Head(todo).sym, Head(todo).terminal)
    /\ todo' = Tail(todo)
    /\ UNCHANGED <<scn, phase, fast_todo>>
    /\ UNCHANGED nvars
    /\ UNCHANGED fvars

CallAddRule ==
    /\ phase = "build"
    /\ todo # << >>
    /\ Head(todo).op = "add_rule"
    /\ AddRule(Head(todo).sym, Head(todo).parts)
    /\ todo' = Tail(todo)
    /\ UNCHANGED <<scn, phase, fast_todo>>
    /\ UNCHANGED nvars
    /\ UNCHANGED fvars

\* naive.Earley(g) and fast.Earley(g); `self.grammar.rules[start]` raises
\* IndexError while the rule table is empty.
NewEarley ==
    /\ phase = "build"
    /\ todo = << >>
    /\ IF Inverse(START) >= Len(rules)
       THEN /\ phase' = "noengine"
            /\ UNCHANGED <<chart, deduced_by, fast_chart>>
       ELSE /\ phase' = "parse"
            /\ chart' = << StartItems >>
            /\ deduced_by' = EmptyMap
            /\ fast_chart' = << StartItems >>
    /\ UNCHANGED <<scn, todo, fast_todo, npc, n_tok, n_iter, n_old, n_new, n_acc,
                   nres, fres, fed, broken, pre_chart, pre_deduced_by,
                   pre_fast_chart>>
    /\ UNCHANGED gvars

(***************************************************************************)
(* naive_earley.py: Earley.feed.                                           *)
(***************************************************************************)
\* NaiveAccepts, were terminal_symbol to check registration alone.
NaiveAcceptsRegistered(c) == c.kind = "Terminal" /\ Registered(c)

\* Lines 105-107: what feed checks before it touches anything.
NaiveAccepts(c) == c.kind = "Terminal" /\ IsTerminalSymbol(c)

\* IsSentinel, were the token compared by identity (`c is not Terminal("\0")`).
IsSentinelByIdentity(c) == FALSE

\* Line 133: `c != Terminal("\0")`
IsSentinel(c) == NodeEq(c, NUL)

\* feed(c) raising AssertionError at line 105 or in terminal_symbol.
NaiveFeedRejected(c) ==
    /\ phase = "parse"
    /\ npc = "idle"
    /\ fast_todo = NoTok
    /\ ~ NaiveAccepts(c)
    /\ nres' = "AssertionError"
    /\ fast_todo' = c
    /\ pre_chart' = chart
    /\ pre_deduced_by' = deduced_by
    /\ UNCHANGED <<chart, deduced_by, npc, n_tok, n_iter, n_old, n_new, n_acc,
                   fed, broken, scn, todo, phase>>
    /\ UNCHANGED gvars
    /\ UNCHANGED fvars

\* feed(c) up to the call of process at line 116.
NaiveFeedEnter(c) ==
    /\ phase = "parse"
    /\ npc = "idle"
    /\ fast_todo = NoTok
    /\ Len(fed) < MaxFeeds
    /\ NaiveAccepts(c)
    /\ npc' = "process"
    /\ n_tok' = c
    /\ n_iter' = chart[Len(chart)]
    /\ n_old' = {}
    /\ n_new' = {}
    /\ n_acc' = {}
    /\ nres' = "running"
    /\ fed' = Append(fed, Inverse(c))
    /\ pre_chart' = chart
    /\ pre_deduced_by' = deduced_by
    /\ UNCHANGED <<chart, deduced_by, broken, fast_todo, scn, todo, phase>>
    /\ UNCHANGED gvars
    /\ UNCHANGED fvars

\* One iteration of process's `for it in cur_state`, over any item left.
NaiveProcessItem ==
    /\ npc = "process"
    /\ \E it \in n_iter :
         LET r == ProcessItem(chart, deduced_by, it, Len(chart) - 1, Inverse(n_tok)) IN
         IF r.err
         THEN \* IndexError leaves feed: its locals are gone
              /\ npc' = "idle"
              /\ nres' = "IndexError"
              /\ broken' = TRUE
              /\ fast_todo' = n_tok
              /\ n_tok' = NoTok
              /\ n_iter' = {}
              /\ n_old' = {}
              /\ n_new' = {}
              /\ n_acc' = {}
              /\ UNCHANGED deduced_by
         ELSE /\ n_iter' = n_iter \ {it}
              /\ n_old' = n_old \cup r.old
              /\ n_new' = n_new \cup r.new
              /\ deduced_by' = r.ded
              /\ UNCHANGED <<npc, nres, broken, fast_todo, n_tok, n_acc>>
    /\ UNCHANGED <<chart, fed, pre_chart, pre_deduced_by, scn, todo, phase>>
    /\ UNCHANGED gvars
    /\ UNCHANGED fvars

\* Unseen, were the items the chart already holds not taken out.
UnseenAll == n_old

\* process has returned: the unseen part of its `old` (lines 118, 125).
Unseen == n_old \ chart[Len(chart)]

\* Merged, were the unseen items added to the first state.
MergedIntoFirst == [chart EXCEPT ![1] = @ \cup Unseen]

\* chart[cur].update(old) (lines 120, 126).
Merged == [chart EXCEPT ![Len(chart)] = @ \cup Unseen]

\* Lines 118-128 with something unseen: merge it and process it.
NaiveNextRound ==
    /\ npc = "process"
    /\ n_iter = {}
    /\ Unseen # {}
    /\ chart' = Merged
    /\ n_iter' = Unseen
    /\ n_old' = {}
    /\ n_new' = {}
    /\ n_acc' = n_acc \cup n_new
    /\ UNCHANGED <<deduced_by, npc, n_tok, nres, fed, broken, pre_chart,
                   pre_deduced_by, fast_todo, scn, todo, phase>>
    /\ UNCHANGED gvars
    /\ UNCHANGED fvars

\* Returned, were the scans of the last round alone appended.
ReturnedLastRound ==
    IF IsSentinel(n_tok) THEN Merged ELSE Append(Merged, n_new)

\* Returned, were `old` appended in place of `new`.
ReturnedOld ==
    IF IsSentinel(n_tok) THEN Merged ELSE Append(Merged, n_old)

\* The state feed leaves when its loop ends (lines 133-134).
Returned ==
    IF IsSentinel(n_tok) THEN Merged ELSE Append(Merged, n_acc \cup n_new)

\* Lines 118-134 with nothing unseen: the loop ends and feed returns.
NaiveFeedReturn ==
    /\ npc = "process"
    /\ n_iter = {}
    /\ Unseen = {}
    /\ chart' = Returned
    /\ npc' = "idle"
    /\ nres' = "ok"
    /\ fast_todo' = n_tok
    /\ n_tok' = NoTok
    /\ n_iter' = {}
    /\ n_old' = {}
    /\ n_new' = {}
    /\ n_acc' = {}
    /\ UNCHANGED <<deduced_by, fed, broken, pre_chart, pre_deduced_by, scn, todo,
                   phase>>
    /\ UNCHANGED gvars
    /\ UNCHANGED fvars

(***************************************************************************)
(* fast_earley.py: Earley.feed, given the token the naive engine was given.*)
(***************************************************************************)
\* The chart fast feed leaves for an accepted token, and whether it raised.
FastFeedResult(c) ==
    CHOOSE out \in
      { IF r.err THEN [chart |-> r.chart, res |-> "IndexError"]
        ELSE IF IsSentinel(c) THEN [chart |-> r.chart, res |-> "ok"]
        ELSE [chart |-> Append(r.chart, r.new), res |-> "ok"]
        : r \in {FastClose(fast_chart, fast_chart[Len(fast_chart)], {},
                           Inverse(c))} } : TRUE

FastFeed ==
    /\ phase = "parse"
    /\ fast_todo # NoTok
    /\ pre_fast_chart' = fast_chart
    /\ IF ~ IsTerminalSymbol(fast_todo)
       THEN /\ fres' = "AssertionError"
            /\ UNCHANGED fast_chart
       ELSE \E r \in {FastFeedResult(fast_todo)} :
            /\ fres' = r.res
            /\ fast_chart' = r.chart
    /\ fast_todo' = NoTok
    /\ UNCHANGED <<scn, todo, phase>>
    /\ UNCHANGED gvars
    /\ UNCHANGED nvars

Next ==
    \/ CallAddSymbol
    \/ CallAddRule
    \/ NewEarley
    \/ \E c \in FeedTokens(scn) : NaiveFeedRejected(c)
    \/ \E c \in FeedTokens(scn) : NaiveFeedEnter(c)
    \/ NaiveProcessItem
    \/ NaiveNextRound
    \/ NaiveFeedReturn
    \/ FastFeed

Spec == Init /\ [][Next]_vars

\* A call of feed, once made, runs on: the interpreter executes the body of
\* process and the loop of feed statement after statement until feed returns
\* or raises.  The caller is under no obligation to call again.
FairSpec ==
    /\ Spec
    /\ WF_vars(NaiveProcessItem)
    /\ WF_vars(NaiveNextRound)
    /\ WF_vars(NaiveFeedReturn)
    /\ WF_vars(FastFeed)

(***************************************************************************)
(* naive_earley.py: the queries complete_items and trace_deduction.        *)
(***************************************************************************)
\* Earley.complete_items(at); the list holds each span once, in the order
\* the set chart[at] is iterated in, so it is taken as a set.
complete_items_at(at) ==
    { deduction_span(c, at) :
        c \in { d \in chart[at + 1] :
                /\ d.point.sym = Inverse(START)
                /\ get_symbol_at_point(d.point) = None } }

\* Earley.complete_items()
complete_items == complete_items_at(Len(chart) - 1)

DeductionNode(span, children) == [span |-> span, children |-> children]

\* What stands in a tree where `self.deduced_by[t]` raised KeyError.
KeyError(t) == [span |-> t, children |-> << >>, raised |-> TRUE]

\* Earley.trace_deduction(it) and its loop `for dot in range(it.point.dot, 0, -1)`
\* from `dot` down, with the children already in left-to-right order.
RECURSIVE trace_deduction(_), TraceChildren(_, _, _, _)
trace_deduction(it) ==
    IF it.point.kind = "GrammarPoint"
    THEN DeductionNode(it, TraceChildren(it.point, it.span[1], it.span[2], it.point.dot))
    ELSE DeductionNode(it, << >>)

\* TraceChildren, were `end = by.span[0]` left out.
RECURSIVE TraceChildrenKeepEnd(_, _, _, _)
TraceChildrenKeepEnd(pt, beg, end, dot) ==
    IF dot = 0 THEN << >>
    ELSE LET t == DeductionSpan(GrammarPoint(pt.sym, pt.rule, dot), beg, end) IN
         IF t \notin DOMAIN deduced_by THEN << KeyError(t) >>
         ELSE LET by == deduced_by[t]
                  before == TraceChildrenKeepEnd(pt, beg, end, dot - 1)
              IN  IF t # by THEN Append(before, trace_deduction(by)) ELSE before

\* TraceChildren, were `node.children.reverse()` left out.
RECURSIVE TraceChildrenUnreversed(_, _, _, _)
TraceChildrenUnreversed(pt, beg, end, dot) ==
    IF dot = 0 THEN << >>
    ELSE LET t == DeductionSpan(GrammarPoint(pt.sym, pt.rule, dot), beg, end) IN
         IF t \notin DOMAIN deduced_by THEN << KeyError(t) >>
         ELSE LET by == deduced_by[t]
                  after == TraceChildrenUnreversed(pt, beg, by.span[1], dot - 1)
              IN  IF t # by THEN << trace_deduction(by) >> \o after ELSE after

TraceChildren(pt, beg, end, dot) ==
    IF dot = 0 THEN << >>
    ELSE LET t == DeductionSpan(GrammarPoint(pt.sym, pt.rule, dot), beg, end) IN
         IF t \notin DOMAIN deduced_by THEN << KeyError(t) >>
         ELSE LET by == deduced_by[t]
                  before == TraceChildren(pt, beg, by.span[1], dot - 1)
              IN  IF t # by THEN Append(before, trace_deduction(by)) ELSE before

(***************************************************************************)
(* fast_earley.py: what an Earley object of the optimized engine has.      *)
(***************************************************************************)
\* The fields and methods of class Earley.
FastEarleyAttributes == {"grammar", "chart", "__init__", "process", "feed"}

\* `p.<name>` on an optimized engine p.
FastGetAttr(name) == IF name \in FastEarleyAttributes THEN "ok" ELSE "AttributeError"

(***************************************************************************)
(* Vocabulary of the properties.                                           *)
(***************************************************************************)
Sentinel == Inverse(NUL)

LastFed == fed[Len(fed)]

\* Both engines have returned from every feed the caller made.
Quiet == phase = "parse" /\ npc = "idle" /\ fast_todo = NoTok

\* The tokens fed, the sentinel feeds left out.
Input == SelectSeq(fed, LAMBDA x : x # Sentinel)

\* An input was fed and then the sentinel, once, and every feed returned.
InputThenSentinel ==
    /\ phase = "parse"
    /\ npc = "idle"
    /\ ~ broken
    /\ Len(fed) >= 1
    /\ LastFed = Sentinel
    /\ \A i \in 1..(Len(fed) - 1) : fed[i] # Sentinel

GrammarPointItems(state) == { it \in state : it.point.kind = "GrammarPoint" }

\* The reference derivability relation: the least set of facts <<X, i, j>>,
\* "X derives w[i..j)", closed under the rules of the grammar.
RECURSIVE MatchRhs(_, _, _, _, _, _)
MatchRhs(rhs, k, i, j, facts, w) ==
    IF k > Len(rhs) THEN i = j
    ELSE IF rhs[k] \in terminals
         THEN i < j /\ w[i + 1] = rhs[k] /\ MatchRhs(rhs, k + 1, i + 1, j, facts, w)
         ELSE \E m \in i..j : /\ <<rhs[k], i, m>> \in facts
                              /\ MatchRhs(rhs, k + 1, m, j, facts, w)

DeriveStep(facts, w) ==
    { f \in (0..(Len(rules) - 1)) \X (0..Len(w)) \X (0..Len(w)) :
        /\ f[2] <= f[3]
        /\ \E r \in 1..Len(rules[f[1] + 1]) :
             MatchRhs(rules[f[1] + 1][r], 1, f[2], f[3], facts, w) }

RECURSIVE DeriveFacts(_, _)
DeriveFacts(facts, w) ==
    LET more == facts \cup DeriveStep(facts, w) IN
    IF more = facts THEN facts ELSE DeriveFacts(more, w)

Derivable(w) == <<Inverse(START), 0, Len(w)>> \in DeriveFacts({}, w)

\* The nodes of a traced tree that have no children.
RECURSIVE Leaves(_)
Leaves(node) ==
    IF node.children = << >> THEN {node}
    ELSE UNION { Leaves(node.children[i]) : i \in 1..Len(node.children) }

TerminalLeaf(node) ==
    /\ node.span.point.kind = "Symbol"
    /\ node.span.span[2] - node.span.span[1] = 1

\* A fully matched point of alternative `rule` of the symbol named `name`.
Matched(name, rule) ==
    LET sym == Inverse(NonTerminal(name)) IN
    GrammarPoint(sym, rule, Len(rules[sym + 1][rule + 1]))

MatchedNode(name, rule, b, e, children) ==
    DeductionNode(DeductionSpan(Matched(name, rule), b, e), children)

TerminalNode(name, b, e) ==
    DeductionNode(DeductionSpan(SymbolPoint(Inverse(Terminal(name))), b, e), << >>)

Fed(names) == [i \in 1..Len(names) |-> Inverse(Terminal(names[i]))]

(***************************************************************************)
(* C1.  Fed the same tokens, the sentinel last, the naive and the          *)
(* optimized engine have charts of the same length and, at every position, *)
(* the same Grammar-Point items.                                           *)
(***************************************************************************)
C1_EnginesAgree ==
    (Quiet /\ fed # << >> /\ LastFed = Sentinel) =>
        /\ Len(chart) = Len(fast_chart)
        /\ \A k \in 1..Len(chart) : chart[k] = GrammarPointItems(fast_chart[k])

(***************************************************************************)
(* C2.  After an input and then the sentinel were fed to the naive engine, *)
(* complete_items() is non-empty exactly when the start nonterminal        *)
(* derives the input.                                                      *)
(***************************************************************************)
C2_AcceptsIffDerivable ==
    InputThenSentinel => ((complete_items # {}) <=> Derivable(Input))

(***************************************************************************)
(* C3.  After an input of length n and then the sentinel, the tree traced  *)
(* from any span of complete_items() has root span [0, n) and only         *)
(* terminal leaves of width 1.                                             *)
(***************************************************************************)
C3_TraceSpansInput ==
    InputThenSentinel =>
        \A sp \in complete_items :
            LET tree == trace_deduction(sp) IN
            /\ tree.span.span = <<0, Len(Input)>>
            /\ \A leaf \in Leaves(tree) : TerminalLeaf(leaf)

(***************************************************************************)
(* C4.  complete_items(at) is exactly the fully matched start items of     *)
(* chart[at] whose origin is 0, as spans over [0, at).                     *)
(***************************************************************************)
C4_CompleteItemsFromOrigin ==
    (phase = "parse" /\ npc = "idle") =>
        \A at \in 0..(Len(chart) - 1) :
            complete_items_at(at) =
                { DeductionSpan(c.point, 0, at) :
                    c \in { d \in chart[at + 1] :
                            /\ d.point.sym = Inverse(START)
                            /\ get_symbol_at_point(d.point) = None
                            /\ d.beg = 0 } }

(***************************************************************************)
(* C5.  A feed of the sentinel leaves the chart as long as it was and      *)
(* removes no item; a feed of any other registered terminal appends        *)
(* exactly one state.  In either engine.                                   *)
(***************************************************************************)
\* chart `after` has every state of `before`, each with at least its items.
Keeps(before, after) ==
    /\ Len(after) >= Len(before)
    /\ \A k \in 1..Len(before) : before[k] \subseteq after[k]

C5_SentinelOnlyFlushes ==
    /\ (phase = "parse" /\ npc = "idle" /\ nres \in {"ok", "IndexError"}) =>
          /\ Keeps(pre_chart, chart)
          /\ Len(chart) = IF LastFed = Sentinel THEN Len(pre_chart)
                                                ELSE Len(pre_chart) + 1
    /\ (Quiet /\ fres \in {"ok", "IndexError"}) =>
          /\ Keeps(pre_fast_chart, fast_chart)
          /\ Len(fast_chart) = IF LastFed = Sentinel THEN Len(pre_fast_chart)
                                                     ELSE Len(pre_fast_chart) + 1

(***************************************************************************)
(* C6.  Right after a sentinel feed has returned, a second sentinel feed   *)
(* adds no item to any chart state.  In either engine.                     *)
(***************************************************************************)
TwoSentinels ==
    /\ ~ broken
    /\ Len(fed) >= 2
    /\ LastFed = Sentinel
    /\ fed[Len(fed) - 1] = Sentinel

C6_ClosureIdempotent ==
    /\ (phase = "parse" /\ npc = "idle" /\ nres = "ok" /\ TwoSentinels) =>
          chart = pre_chart
    /\ (Quiet /\ fres = "ok" /\ TwoSentinels) => fast_chart = pre_fast_chart

(***************************************************************************)
(* C7.  Naive engine, <start> -> A A, A -> A a | b A | c, fed c, a, c and  *)
(* the sentinel: the chart has 4 states, state 0 holds the four dot-0      *)
(* items, complete_items() is the one span "<start> -> A A . [0,3)", and   *)
(* its tree is  (A -> A a . [0,2) (A -> c . [0,1) (c [0,1))) (a [1,2)))    *)
(* (A -> c . [2,3) (c [2,3))).                                             *)
(***************************************************************************)
ToyAccepted ==
    /\ scn = "toy"
    /\ phase = "parse"
    /\ npc = "idle"
    /\ fed = Fed(<<"c", "a", "c", "\\0">>)

ToyTree ==
    MatchedNode("<start>", 0, 0, 3,
        << MatchedNode("A", 0, 0, 2,
               << MatchedNode("A", 2, 0, 1, << TerminalNode("c", 0, 1) >>),
                  TerminalNode("a", 1, 2) >>),
           MatchedNode("A", 2, 2, 3, << TerminalNode("c", 2, 3) >>) >>)

C7_ToyAccept ==
    ToyAccepted =>
        /\ Len(chart) = 4
        /\ chart[1] = { Item(GrammarPoint(Inverse(START), 0, 0), 0) }
                      \cup { Item(GrammarPoint(Inverse(NonTerminal("A")), r, 0), 0) :
                               r \in 0..2 }
        /\ complete_items = { DeductionSpan(Matched("<start>", 0), 0, 3) }
        /\ \A sp \in complete_items : trace_deduction(sp) = ToyTree

C7_Witness == ToyAccepted /\ complete_items # {}

(***************************************************************************)
(* C8.  Naive engine, the book grammar, fed book, that, flight and the     *)
(* sentinel: complete_items() is the one span "<start> -> VP . [0,3)",     *)
(* though "<start> -> VP ." is in state 1 too, and its tree has the single *)
(* child "VP -> Verb NP . [0,3)" over "Verb -> book . [0,1)" and           *)
(* "NP -> Det Nominal . [1,3)".                                            *)
(***************************************************************************)
BookAccepted ==
    /\ scn = "book"
    /\ phase = "parse"
    /\ npc = "idle"
    /\ fed = Fed(<<"book", "that", "flight", "\\0">>)

BookTree ==
    MatchedNode("<start>", 1, 0, 3,
        << MatchedNode("VP", 1, 0, 3,
               << MatchedNode("Verb", 0, 0, 1, << TerminalNode("book", 0, 1) >>),
                  MatchedNode("NP", 0, 1, 3,
                      << MatchedNode("Det", 0, 1, 2, << TerminalNode("that", 1, 2) >>),
                         MatchedNode("Nominal", 0, 2, 3,
                             << MatchedNode("Noun", 1, 2, 3,
                                    << TerminalNode("flight", 2, 3) >>) >>) >>) >>) >>)

C8_BookAccept ==
    BookAccepted =>
        /\ complete_items = { DeductionSpan(Matched("<start>", 1), 0, 3) }
        /\ Item(Matched("<start>", 1), 0) \in chart[2]
        /\ \A sp \in complete_items : trace_deduction(sp) = BookTree

C8_Witness == BookAccepted /\ Len(chart) = 4 /\ complete_items # {}

(***************************************************************************)
(* C9.  A terminal no item of the closed last state expects gets an empty  *)
(* state appended; after an empty state every appended state is empty,     *)
(* each such feed returns normally and appends its one state, and          *)
(* complete_items() on an empty last state is empty.                       *)
(***************************************************************************)
C9_RejectionIsDeadEnd ==
    (phase = "parse" /\ npc = "idle") =>
        /\ (nres = "ok" /\ LastFed # Sentinel
              /\ \A it \in chart[Len(chart) - 1] :
                    get_symbol_at_point(it.point) # LastFed)
           => chart[Len(chart)] = {}
        /\ \A k \in 1..(Len(chart) - 1) : chart[k] = {} => chart[k + 1] = {}
        /\ (nres \in {"ok", "IndexError"} /\ pre_chart[Len(pre_chart)] = {})
           => /\ nres = "ok"
              /\ Len(chart) = IF LastFed = Sentinel THEN Len(pre_chart)
                                                    ELSE Len(pre_chart) + 1
        /\ chart[Len(chart)] = {} => complete_items = {}

\* test_reject: a, b, a and the sentinel leave states 1 to 3 empty.
C9_Witness ==
    /\ scn = "toy"
    /\ phase = "parse"
    /\ npc = "idle"
    /\ nres = "ok"
    /\ fed = Fed(<<"a", "b", "a", "\\0">>)
    /\ Len(chart) = 4
    /\ \A k \in 2..4 : chart[k] = {}
    /\ complete_items = {}

(***************************************************************************)
(* C10.  A feed of a token that is not registered, or is registered as a   *)
(* nonterminal, fails and leaves the chart, the deduction map and the      *)
(* engine's working state as they were, so the next feed starts from the   *)
(* state the failed call found.  In either engine.                         *)
(***************************************************************************)
C10_UnknownTerminalNoEffect ==
    /\ (phase = "parse" /\ npc = "idle" /\ fast_todo # NoTok
          /\ ~ IsTerminalSymbol(fast_todo))
       => nres = "AssertionError"
    /\ (phase = "parse" /\ nres = "AssertionError")
       => /\ chart = pre_chart
          /\ deduced_by = pre_deduced_by
          /\ npc = "idle"
          /\ n_iter = {} /\ n_old = {} /\ n_new = {} /\ n_acc = {}
    /\ (Quiet /\ nres = "AssertionError")
       => fres = "AssertionError" /\ fast_chart = pre_fast_chart

C10_Witness ==
    /\ Quiet
    /\ nres = "AssertionError"
    /\ fres = "AssertionError"
    /\ Len(chart) >= 3
    /\ deduced_by # EmptyMap

(***************************************************************************)
(* C11.  add_rule fails with UnknownSymbol when its head or one of its     *)
(* right-hand-side tokens was never registered, and with                   *)
(* TerminalHasProductions when its head is a terminal; it fails in no      *)
(* other case, and a failing call leaves the rule table, the symbol table  *)
(* and the terminal set as they were.                                      *)
(***************************************************************************)
\* The next call of the caller is add_rule.
AddRuleIsNext == phase = "build" /\ todo # << >> /\ Head(todo).op = "add_rule"

UnknownPart(parts) == \E i \in 1..Len(parts) : ~ Registered(parts[i])

C11_AddRuleFailsCleanly ==
    [][AddRuleIsNext =>
         LET sym == Head(todo).sym
             parts == Head(todo).parts
         IN  /\ ~ Registered(sym) => gerr' = "UnknownSymbol"
             /\ (Registered(sym) /\ Inverse(sym) \in terminals)
                => gerr' = "TerminalHasProductions"
             /\ (Registered(sym) /\ Inverse(sym) \notin terminals /\ UnknownPart(parts))
                => gerr' = "UnknownSymbol"
             /\ (Registered(sym) /\ Inverse(sym) \notin terminals /\ ~ UnknownPart(parts))
                => gerr' = "ok"
             /\ gerr' # "ok"
                => rules' = rules /\ symbols' = symbols /\ terminals' = terminals]_vars

\* With a and A registered, the rule A -> a B, whose first part is known and
\* whose second is not, has just been refused, while the rule table is
\* shorter than the symbol table.
C11_Witness ==
    /\ phase = "build"
    /\ scn = "free"
    /\ gerr = "UnknownSymbol"
    /\ Len(symbols) = 4
    /\ Len(rules) < Len(symbols)
    /\ Len(todo) < MaxCalls

(***************************************************************************)
(* C12.  While every feed has succeeded, the chart has one state more than *)
(* the number of non-sentinel terminals fed, in either engine; after n     *)
(* tokens and the sentinel it has n + 1 states.                            *)
(***************************************************************************)
C12_ChartLength ==
    /\ (phase = "parse" /\ npc = "idle" /\ ~ broken) => Len(chart) = 1 + Len(Input)
    /\ (Quiet /\ ~ broken /\ fres \in {"ok", "AssertionError", "none"})
       => Len(fast_chart) = 1 + Len(Input)

\* Two tokens and two sentinel feeds, one of them between the tokens.
C12_Witness ==
    /\ Quiet
    /\ ~ broken
    /\ Len(fed) = 4
    /\ Len(Input) = 2
    /\ fed[2] = Sentinel
    /\ fed[4] = Sentinel
    /\ Len(chart) = 3

(***************************************************************************)
(* C13.  The symbol table gives the ids 0..k-1 in registration order, the  *)
(* start nonterminal is 0 and the sentinel 1, and no two ids have the same *)
(* printable form: add_symbol of a form already registered, under either   *)
(* kind, fails and leaves the table as it was, and a successful add_symbol *)
(* gives the new token the next id and moves no other.                     *)
(***************************************************************************)
\* The next call of the caller is add_symbol.
AddSymbolIsNext == phase = "build" /\ todo # << >> /\ Head(todo).op = "add_symbol"

Bijective ==
    \A i, j \in 1..Len(symbols) : symbols[i].name = symbols[j].name => i = j

C13_DenseBijectiveIds ==
    /\ [](/\ Len(symbols) >= 2
          /\ symbols[1] = START
          /\ symbols[2] = NUL
          /\ Bijective)
    /\ [][AddSymbolIsNext =>
            LET sym == Head(todo).sym IN
            /\ (\E i \in 1..Len(symbols) : symbols[i].name = sym.name)
               => gerr' # "ok" /\ symbols' = symbols
            /\ gerr' = "ok" => symbols' = Append(symbols, sym)
            /\ gerr' # "ok" => symbols' = symbols]_vars

\* Terminal a was registered, and NonTerminal a has just been refused.
C13_Witness ==
    /\ phase = "build"
    /\ scn = "free"
    /\ gerr = "ValueDuplicationError"
    /\ Len(symbols) = 3
    /\ symbols[3] = Terminal("a")
    /\ Len(todo) = MaxCalls - 2

(***************************************************************************)
(* C14.  Whatever add_symbol and add_rule calls were made, succeeding or   *)
(* failing, no symbol id is in the terminal set and owns a production      *)
(* alternative.                                                            *)
(***************************************************************************)
\* The ids that own at least one alternative.
RuleOwners == { id \in 0..(Len(rules) - 1) : Len(rules[id + 1]) > 0 }

C14_TerminalsOwnNoRules == terminals \cap RuleOwners = {}

\* A rule for the terminal a has just been refused while other rules exist.
C14_Witness ==
    /\ phase = "build"
    /\ gerr = "TerminalHasProductions"
    /\ RuleOwners # {}
    /\ Cardinality(terminals) >= 2

(***************************************************************************)
(* C15.  Every right-hand side in the rule table is non-empty: add_rule    *)
(* with an empty right-hand-side list records no empty alternative.        *)
(***************************************************************************)
C15_NonEmptyRhs ==
    \A id \in 1..Len(rules) : \A r \in 1..Len(rules[id]) : rules[id][r] # << >>

(***************************************************************************)
(* C16.  A successful add_rule leaves a rule table that covers every       *)
(* registered symbol, so no engine is refused construction once a rule     *)
(* exists and no feed raises IndexError when it looks up the alternatives  *)
(* of a registered nonterminal that owns no rule.                          *)
(***************************************************************************)
C16_RuleTableCovers ==
    [][/\ (AddRuleIsNext /\ gerr' = "ok") => Len(rules') = Len(symbols')
       /\ (phase' = "noengine") => rules' = << >>
       /\ nres' # "IndexError"
       /\ fres' # "IndexError"]_vars

(***************************************************************************)
(* C17.  The optimized engine offers the derivation queries of the naive   *)
(* one: after c, a, c and the sentinel on the toy grammar its deduction    *)
(* map, complete_items() and trace_deduction() can be used, as             *)
(* TestFastEarley.test_simple uses them.                                   *)
(***************************************************************************)
C17_FastOffersQueries ==
    (scn = "toy" /\ Quiet /\ fres = "ok" /\ fed = Fed(<<"c", "a", "c", "\\0">>))
    => /\ FastGetAttr("deduced_by") = "ok"
       /\ FastGetAttr("complete_items") = "ok"
       /\ FastGetAttr("trace_deduction") = "ok"

(***************************************************************************)
(* C18.  The deduction map is write-once: no step removes a key or changes *)
(* the justification a key has; a completion or scan that produces the     *)
(* span again leaves the first one in place.                               *)
(***************************************************************************)
C18_DeductionWriteOnce ==
    [][\A k \in DOMAIN deduced_by :
          k \in DOMAIN deduced_by' /\ deduced_by'[k] = deduced_by[k]]_vars

\* A sentinel feed has processed every item of the last state, and one of
\* its fully matched items completes into a span that is justified by
\* another span.
C18_Witness ==
    /\ phase = "parse"
    /\ npc = "idle"
    /\ nres = "ok"
    /\ LastFed = Sentinel
    /\ \E it \in chart[Len(chart)] :
         /\ get_symbol_at_point(it.point) = None
         /\ \E nit \in Completions(chart, it) :
              LET k == deduction_span(nit, Len(chart) - 1) IN
              /\ k \in DOMAIN deduced_by
              /\ deduced_by[k] # deduction_span(it, Len(chart) - 1)

(***************************************************************************)
(* C19.  After every feed, each item of chart[k] whose dot is at least 1   *)
(* has an entry for its span [origin, k) in the deduction map, and no      *)
(* lookup that trace_deduction makes for a span of complete_items(at), at  *)
(* any position, raises KeyError.                                          *)
(***************************************************************************)
\* The nodes of a traced tree.
RECURSIVE Nodes(_)
Nodes(node) ==
    {node} \cup UNION { Nodes(node.children[i]) : i \in 1..Len(node.children) }

C19_NoMissingDeduction ==
    (phase = "parse" /\ npc = "idle") =>
        /\ \A k \in 1..Len(chart) : \A it \in chart[k] :
              it.point.dot >= 1 => deduction_span(it, k - 1) \in DOMAIN deduced_by
        /\ \A at \in 0..(Len(chart) - 1) : \A sp \in complete_items_at(at) :
              \A n \in Nodes(trace_deduction(sp)) : "raised" \notin DOMAIN n

\* An ambiguous input was traced: two tokens, and a tree with children.
C19_Witness ==
    /\ scn = "amb"
    /\ phase = "parse"
    /\ npc = "idle"
    /\ Len(chart) >= 3
    /\ \E sp \in complete_items :
         /\ sp.span = <<0, 2>>
         /\ trace_deduction(sp).children # << >>

(***************************************************************************)
(* C20.  In every chart of either engine, and among the items a feed is    *)
(* working on, each Grammar-Point item names an existing alternative of a  *)
(* nonterminal, has its dot between 0 and the alternative's length and its *)
(* origin at or before its state's position (at it when the dot is 0); and *)
(* the items process selects to advance in a completion are never fully    *)
(* matched Grammar Points or done Star Points.                             *)
(***************************************************************************)
\* pt names an alternative of a nonterminal and a dot within it.
ValidGrammarPoint(pt) ==
    /\ pt.sym \in 0..(Len(rules) - 1)
    /\ pt.sym \notin terminals
    /\ pt.rule \in 0..(Len(rules[pt.sym + 1]) - 1)
    /\ pt.dot \in 0..Len(rules[pt.sym + 1][pt.rule + 1])

\* Every Grammar-Point item of `state`, the state of position k, is valid.
ValidState(state, k) ==
    \A it \in GrammarPointItems(state) :
        /\ ValidGrammarPoint(it.point)
        /\ it.beg \in 0..k
        /\ it.point.dot = 0 => it.beg = k

\* proceed's precondition.
CanProceed(it) ==
    IF it.point.kind = "GrammarPoint"
    THEN get_symbol_at_point(it.point) # None
    ELSE ~ it.point.done

C20_PointsStayValid ==
    phase = "parse" =>
        /\ \A k \in 1..Len(chart) : ValidState(chart[k], k - 1)
        /\ \A k \in 1..Len(fast_chart) : ValidState(fast_chart[k], k - 1)
        /\ ValidState(n_iter \cup n_old, Len(chart) - 1)
        /\ ValidState(n_new \cup n_acc, Len(chart))
        /\ \A it \in chart[Len(chart)] \cup n_iter :
              get_symbol_at_point(it.point) = None
              => \A cit \in Waiting(chart, it) : CanProceed(cit)
        /\ \A k \in 1..Len(fast_chart) : \A it \in fast_chart[k] :
              /\ (it.point.kind = "GrammarPoint" /\ get_symbol_at_point(it.point) = None)
                 => \A cit \in StarWaiting(fast_chart, it) : CanProceed(cit)
              /\ (it.point.kind = "StarPoint" /\ it.point.done)
                 => \A cit \in FastWaiting(fast_chart, it) : CanProceed(cit)

\* The optimized engine holds a done star at a position where a fully
\* matched item of the same nonterminal, begun there, looks for waiting stars.
C20_Witness ==
    /\ Quiet
    /\ Len(fast_chart) >= 3
    /\ \E k \in 2..Len(fast_chart) : \E it \in fast_chart[k] :
         /\ it.point.kind = "GrammarPoint"
         /\ get_symbol_at_point(it.point) = None
         /\ StarWaiting(fast_chart, it) # {}
         /\ \E c \in fast_chart[it.beg + 1] :
              c.point.kind = "StarPoint" /\ c.point.done /\ c.point.sym = it.point.sym

(***************************************************************************)
(* C21.  When a feed of the naive engine returns, the state it worked on   *)
(* holds, for each of its items with a nonterminal after the dot, every    *)
(* dot-0 alternative of that nonterminal begun at this position, and, for  *)
(* each of its fully matched items, the advanced form of every item that   *)
(* waits for its nonterminal at its origin, the origin being this position *)
(* or an earlier one.                                                      *)
(***************************************************************************)
\* The state of position cur holds what predict yields from its items.
ClosedUnderPredict(ch, cur) ==
    \A it \in ch[cur + 1] :
        LET dot_sym == get_symbol_at_point(it.point) IN
        (dot_sym # None /\ dot_sym \notin terminals /\ dot_sym < Len(rules))
        => Predictions(dot_sym, cur) \subseteq ch[cur + 1]

\* The state of position cur holds what complete yields from its items.
ClosedUnderComplete(ch, cur) ==
    \A it \in ch[cur + 1] :
        get_symbol_at_point(it.point) = None => Completions(ch, it) \subseteq ch[cur + 1]

C21_FeedClosesState ==
    (phase = "parse" /\ npc = "idle" /\ nres = "ok") =>
        /\ ClosedUnderPredict(chart, Len(pre_chart) - 1)
        /\ ClosedUnderComplete(chart, Len(pre_chart) - 1)

(***************************************************************************)
(* C22.  The state a feed of a terminal other than the sentinel appends is *)
(* exactly the set of the advanced forms of the Grammar Point items of the *)
(* closed previous state whose next symbol is that terminal, each with its *)
(* origin; it holds no item with dot 0 and, in the optimized engine, no    *)
(* Star Point item.                                                        *)
(***************************************************************************)
\* What scanning t yields from a state.
ScanOf(state, t) ==
    { proceed(it) : it \in { x \in GrammarPointItems(state) :
                               get_symbol_at_point(x.point) = t } }

\* The last feed was accepted by terminal_symbol and was not of the sentinel.
FedPlainToken == fed # << >> /\ nres # "AssertionError" /\ LastFed # Sentinel

C22_AppendedStateIsScans ==
    /\ (phase = "parse" /\ npc = "idle" /\ nres = "ok" /\ FedPlainToken) =>
         /\ Len(chart) = Len(pre_chart) + 1
         /\ chart[Len(chart)] = ScanOf(chart[Len(chart) - 1], LastFed)
         /\ \A it \in chart[Len(chart)] : it.point.dot # 0
    /\ (Quiet /\ fres = "ok" /\ FedPlainToken) =>
         /\ Len(fast_chart) = Len(pre_fast_chart) + 1
         /\ fast_chart[Len(fast_chart)] = ScanOf(fast_chart[Len(fast_chart) - 1], LastFed)
         /\ \A it \in fast_chart[Len(fast_chart)] :
              it.point.kind = "GrammarPoint" /\ it.point.dot # 0

\* Both engines appended a state that holds an item scanned in an early round.
C22_Witness ==
    /\ Quiet /\ nres = "ok" /\ fres = "ok" /\ FedPlainToken
    /\ Len(chart) >= 3
    /\ \E it \in chart[Len(chart)] : it.beg = Len(chart) - 2
    /\ \E it \in fast_chart[Len(fast_chart)] : it.beg = Len(chart) - 2

(***************************************************************************)
(* C23.  Every call of feed terminates, for left-recursive and for cyclic  *)
(* unit-rule grammars too: a feed that has entered its fixpoint loop       *)
(* eventually leaves it, in the naive engine and in the optimized one.     *)
(***************************************************************************)
C23_FeedTerminates ==
    /\ (npc = "process") ~> (npc = "idle")
    /\ (fast_todo # NoTok) ~> (fast_todo = NoTok)

\* A second feed has returned on the cyclic unit-rule grammar, in both
\* engines, after more than one round of the loop.
C23_Witness ==
    /\ scn = "cyc"
    /\ Quiet /\ nres = "ok" /\ fres = "ok"
    /\ Len(fed) >= 2
    /\ Cardinality(chart[1]) > 2

(***************************************************************************)
(* C24.  trace_deduction makes each recursive call on a terminal leaf or   *)
(* on a span strictly narrower than its parent's range [begin, end).       *)
(***************************************************************************)
\* The range of c lies within the range of p.
Within(c, p) == p.span[1] <= c.span[1] /\ c.span[2] <= p.span[2]

\* The range of c lies within the range of p and is shorter.
Narrower(c, p) == Within(c, p) /\ c.span[2] - c.span[1] < p.span[2] - p.span[1]

\* Every child in the tree is a terminal leaf or narrower than its parent.
ShrinksAtEachCall(tree) ==
    \A n \in Nodes(tree) : \A i \in 1..Len(n.children) :
        \/ n.children[i].span.point.kind = "Symbol"
        \/ Narrower(n.children[i].span, n.span)

C24_CallsStrictlyNarrower ==
    (phase = "parse" /\ npc = "idle") =>
        \A t \in DOMAIN deduced_by : ShrinksAtEachCall(trace_deduction(t))

(***************************************************************************)
(* C24, amended.  trace_deduction terminates: on every path of recursive   *)
(* calls no span (point and range) occurs twice, and each call is made on  *)
(* a span whose range lies within its parent's range.  The range may equal *)
(* the parent's, as it does below a unit rule, so a child Grammar-Point    *)
(* node can have its parent's range but never its parent's span.           *)
(***************************************************************************)
\* No span occurs twice on a path from the root of the tree.
RECURSIVE NoRepeat(_, _)
NoRepeat(node, seen) ==
    /\ node.span \notin seen
    /\ \A i \in 1..Len(node.children) :
          NoRepeat(node.children[i], seen \cup {node.span})

C24_CallsWithinParent ==
    (phase = "parse" /\ npc = "idle") =>
        \A t \in DOMAIN deduced_by :
            /\ NoRepeat(trace_deduction(t), {})
            /\ \A n \in Nodes(trace_deduction(t)) : \A i \in 1..Len(n.children) :
                  /\ Within(n.children[i].span, n.span)
                  /\ n.children[i].span # n.span

\* A tree was traced in which a Grammar-Point child has its parent's range.
C24_Witness ==
    /\ phase = "parse" /\ npc = "idle"
    /\ \E t \in DOMAIN deduced_by : \E n \in Nodes(trace_deduction(t)) :
         \E i \in 1..Len(n.children) :
            /\ n.children[i].span.point.kind = "GrammarPoint"
            /\ n.children[i].span.span = n.span.span
            /\ n.span.span[1] < n.span.span[2]

(***************************************************************************)
(* C25.  A call of feed, in either engine, changes the chart only by       *)
(* adding items to the state that was last before the call and by          *)
(* appending at most one state: every state below that one is as it was,   *)
(* and no state has lost an item.  It holds while the call runs and after  *)
(* it has returned or raised.                                              *)
(***************************************************************************)
\* post differs from pre in its last state, which grew, and one more state.
ChangedOnlyLast(pre, post) ==
    /\ Len(post) \in {Len(pre), Len(pre) + 1}
    /\ \A k \in 1..(Len(pre) - 1) : post[k] = pre[k]
    /\ pre[Len(pre)] \subseteq post[Len(pre)]

C25_FeedChangesLastStateOnly ==
    /\ (phase = "parse" /\ nres # "none") => ChangedOnlyLast(pre_chart, chart)
    /\ (phase = "parse" /\ fres # "none") =>
          ChangedOnlyLast(pre_fast_chart, fast_chart)

\* A feed at position 1 or later grew the last state and appended a state,
\* in both engines.
C25_Witness ==
    /\ Quiet /\ nres = "ok" /\ fres = "ok"
    /\ Len(pre_chart) >= 2
    /\ Len(chart) = Len(pre_chart) + 1
    /\ chart[Len(pre_chart)] # pre_chart[Len(pre_chart)]
    /\ Len(pre_fast_chart) >= 2
    /\ Len(fast_chart) = Len(pre_fast_chart) + 1
    /\ fast_chart[Len(pre_fast_chart)] # pre_fast_chart[Len(pre_fast_chart)]

(***************************************************************************)
(* C26.  In the optimized engine prediction is shared: a chart state k     *)
(* holds at most one not-done Star Point item per nonterminal, and its     *)
(* origin is k; and each Grammar Point item with dot 0, the seeded start   *)
(* items of state 0 apart, has the not-done Star Point item of its         *)
(* nonterminal, of its origin, in its state.                               *)
(***************************************************************************)
\* The not-done Star Point items of sym in a state.
OpenStars(state, sym) ==
    { it \in state : /\ it.point.kind = "StarPoint"
                     /\ ~ it.point.done
                     /\ it.point.sym = sym }

C26_PredictionIsShared ==
    phase = "parse" =>
        \A k \in 1..Len(fast_chart) :
            /\ \A sym \in 0..(Len(symbols) - 1) :
                  /\ Cardinality(OpenStars(fast_chart[k], sym)) <= 1
                  /\ \A it \in OpenStars(fast_chart[k], sym) : it.beg = k - 1
            /\ \A it \in GrammarPointItems(fast_chart[k]) :
                  (it.point.dot = 0 /\ ~ (k = 1 /\ it \in StartItems))
                  => Item(StarPoint(it.point.sym, FALSE), it.beg) \in fast_chart[k]

\* A state past the first in which two Grammar Point items wait for the same
\* nonterminal, predicted once.
C26_Witness ==
    /\ Quiet /\ fres = "ok"
    /\ \E k \in 2..Len(fast_chart) : \E star \in fast_chart[k] :
         /\ star.point.kind = "StarPoint" /\ ~ star.point.done
         /\ Cardinality({ it \in GrammarPointItems(fast_chart[k]) :
                            get_symbol_at_point(it.point) = star.point.sym }) >= 2
         /\ \E it \in GrammarPointItems(fast_chart[k]) :
              it.point.sym = star.point.sym /\ it.point.dot = 0

(***************************************************************************)
(* C27.  In the optimized engine, once a feed has closed state k, the done *)
(* Star Point item of X with origin o is in chart[k] if and only if        *)
(* chart[k] holds a fully matched Grammar Point item of X with origin o    *)
(* and chart[o] holds the not-done Star Point item of X; and when the done *)
(* star is there, so is the advanced form of every Grammar Point item of   *)
(* chart[o] that waits for X.                                              *)
(***************************************************************************)
\* The state of position k is closed under the two completion steps.
StarsClosed(ch, k) ==
    \A sym \in 0..(Len(symbols) - 1) : \A o \in 0..k :
        LET done == Item(StarPoint(sym, TRUE), o) IN
        /\ done \in ch[k + 1]
           <=> /\ \E it \in GrammarPointItems(ch[k + 1]) :
                     /\ it.point.sym = sym
                     /\ it.beg = o
                     /\ get_symbol_at_point(it.point) = None
               /\ Item(StarPoint(sym, FALSE), o) \in ch[o + 1]
        /\ done \in ch[k + 1] => FastCompletions(ch, done) \subseteq ch[k + 1]

C27_DoneStarsComplete ==
    (Quiet /\ fres = "ok") => StarsClosed(fast_chart, Len(pre_fast_chart) - 1)

(***************************************************************************)
(* C28.  Every entry of the deduction map is well-formed.  Its key is a    *)
(* Grammar Point p with dot d >= 1 over [b, e).  Its value is either the   *)
(* terminal span (s, [e-1, e)), s being the symbol before the dot of p and *)
(* the token fed at position e-1, with the item (p with dot d-1, origin b) *)
(* in chart[e-1]; or the span (q, [m, e)) of a fully matched Grammar Point *)
(* q of the nonterminal before the dot of p, b <= m <= e, with that item   *)
(* in chart[m].                                                            *)
(***************************************************************************)
\* Some feed made at input position pos was of token s.  Positions are
\* counted by the states appended, one per feed of another token than the
\* sentinel, as long as no feed raised.
FedAt(pos, s) ==
    \E i \in 1..Len(fed) :
        /\ fed[i] = s
        /\ Cardinality({ j \in 1..(i - 1) : fed[j] # Sentinel }) = pos

WellFormedEntry(t, by) ==
    LET p == t.point
        b == t.span[1]
        e == t.span[2]
    IN  /\ p.kind = "GrammarPoint"
        /\ p.dot >= 1
        /\ p.sym < Len(rules)
        /\ p.rule < Len(rules[p.sym + 1])
        /\ p.dot <= Len(rules[p.sym + 1][p.rule + 1])
        /\ LET s == rules[p.sym + 1][p.rule + 1][p.dot]
               waited == Item(GrammarPoint(p.sym, p.rule, p.dot - 1), b)
           IN  \/ /\ by.point.kind = "Symbol"
                  /\ by.point.sym = s
                  /\ by.span = <<e - 1, e>>
                  /\ b <= e - 1
                  /\ e <= Len(chart)
                  /\ waited \in chart[e]
                  /\ ~ broken => FedAt(e - 1, s)
               \/ /\ by.point.kind = "GrammarPoint"
                  /\ by.point.sym = s
                  /\ get_symbol_at_point(by.point) = None
                  /\ by.span[2] = e
                  /\ b <= by.span[1]
                  /\ by.span[1] <= e
                  /\ e < Len(chart)
                  /\ waited \in chart[by.span[1] + 1]

C28_DeductionEntriesWellFormed ==
    phase = "parse" =>
        \A t \in DOMAIN deduced_by : WellFormedEntry(t, deduced_by[t])

\* The map holds an entry of each kind, the completed one begun past
\* position 0.
C28_Witness ==
    /\ phase = "parse" /\ npc = "idle"
    /\ \E t \in DOMAIN deduced_by : deduced_by[t].point.kind = "Symbol"
    /\ \E t \in DOMAIN deduced_by :
         /\ deduced_by[t].point.kind = "GrammarPoint"
         /\ deduced_by[t].span[1] > t.span[1]

(***************************************************************************)
(* C29.  In the tree trace_deduction returns for the span (p, [b, e)) of a *)
(* fully matched Grammar Point item of the chart, the node, and each       *)
(* Grammar Point node below it, has as many children as the rule of its    *)
(* point has symbols, in the order of the rule: the i-th child is a span   *)
(* of the i-th right-hand-side symbol, the first begins at b, each begins  *)
(* where the one before it ends, and the last ends at e.                   *)
(***************************************************************************)
\* The ranges of the children, left to right, cover [b, e) without a gap.
Tiles(children, b, e) ==
    IF children = << >> THEN b = e
    ELSE /\ children[1].span.span[1] = b
         /\ \A i \in 1..(Len(children) - 1) :
               children[i + 1].span.span[1] = children[i].span.span[2]
         /\ children[Len(children)].span.span[2] = e

\* A Grammar Point node has one child per symbol of its rule, in order.
ChildrenFollowRule(n) ==
    LET rhs == rules[n.span.point.sym + 1][n.span.point.rule + 1] IN
    /\ Len(n.children) = Len(rhs)
    /\ \A i \in 1..Len(n.children) :
          /\ "raised" \notin DOMAIN n.children[i]
          /\ n.children[i].span.point.sym = rhs[i]
          /\ (n.children[i].span.point.kind = "Symbol") <=> (rhs[i] \in terminals)
    /\ Tiles(n.children, n.span.span[1], n.span.span[2])

C29_ChildrenTileTheSpan ==
    (phase = "parse" /\ npc = "idle") =>
        \A k \in 1..Len(chart) : \A it \in chart[k] :
            get_symbol_at_point(it.point) = None =>
                \A n \in Nodes(trace_deduction(deduction_span(it, k - 1))) :
                    n.span.point.kind = "GrammarPoint" => ChildrenFollowRule(n)

\* A fully matched item over two tokens or more was traced into a node of
\* two children or more below which there is another Grammar Point node.
C29_Witness ==
    /\ phase = "parse" /\ npc = "idle"
    /\ \E k \in 3..Len(chart) : \E it \in chart[k] :
         /\ get_symbol_at_point(it.point) = None
         /\ it.beg = 0
         /\ LET tree == trace_deduction(deduction_span(it, k - 1)) IN
            /\ Len(tree.children) >= 2
            /\ \E i \in 1..Len(tree.children) :
                  /\ tree.children[i].span.point.kind = "GrammarPoint"
                  /\ tree.children[i].children # << >>

(***************************************************************************)
(* C30.  The chart does not depend on the order in which process iterates  *)
(* the items of a state: whatever the order, the chart a feed leaves is    *)
(* the one obtained by taking each round of the loop as a whole, a         *)
(* function of the chart before the call and of the token.  The deduction  *)
(* map is not part of the statement.                                       *)
(***************************************************************************)
\* The loop of naive feed with each call of process taken as a whole: the
\* union, over the items of the frontier, of what each adds to old and new.
RECURSIVE NaiveClose(_, _, _, _)
NaiveClose(ch, frontier, acc, cid) ==
    LET cur == Len(ch) - 1
        rs == { ProcessItem(ch, EmptyMap, it, cur, cid) : it \in frontier }
    IN  IF \E r \in rs : r.err
        THEN [chart |-> ch, new |-> {}, err |-> TRUE]
        ELSE LET old == UNION { r.old : r \in rs } \ ch[cur + 1]
                 acc2 == acc \cup UNION { r.new : r \in rs }
             IN  IF old = {}
                 THEN [chart |-> ch, new |-> acc2, err |-> FALSE]
                 ELSE NaiveClose([ch EXCEPT ![cur + 1] = @ \cup old], old, acc2, cid)

\* The chart and the outcome of feed(c) on chart ch, whatever the order.
NaiveFeedResult(ch, cid) ==
    LET r == NaiveClose(ch, ch[Len(ch)], {}, cid) IN
    IF r.err THEN [chart |-> r.chart, res |-> "IndexError"]
    ELSE IF cid = Sentinel THEN [chart |-> r.chart, res |-> "ok"]
    ELSE [chart |-> Append(r.chart, r.new), res |-> "ok"]

C30_ChartIsOrderFree ==
    (phase = "parse" /\ npc = "idle" /\ nres \in {"ok", "IndexError"}) =>
        /\ chart = NaiveFeedResult(pre_chart, LastFed).chart
        /\ nres = NaiveFeedResult(pre_chart, LastFed).res

\* A feed has returned in which one call of process had two items or more to
\* iterate, and an entry of the deduction map had two candidates: another
\* fully matched item of the chart justifies the same span.
C30_Witness ==
    /\ phase = "parse" /\ npc = "idle" /\ nres = "ok"
    /\ Cardinality(pre_chart[Len(pre_chart)]) >= 2
    /\ \E t \in { x \in DOMAIN deduced_by : x.span[2] < Len(chart) } :
       \E it \in chart[t.span[2] + 1] :
         /\ get_symbol_at_point(it.point) = None
         /\ t \in { deduction_span(nit, t.span[2]) : nit \in Completions(chart, it) }
         /\ deduction_span(it, t.span[2]) # deduced_by[t]

(***************************************************************************)
(* C31.  The DuplicateTerminalProduction check of add_symbol never fires:  *)
(* in every state of the grammar the rule table is no longer than the      *)
(* symbol table, so the id the next symbol gets owns no rule, no call of   *)
(* add_symbol has failed that check, and none made now would.              *)
(***************************************************************************)
\* Tokens a caller may pass to add_symbol next, registered or not.
NextTokens == {Terminal("a"), Terminal("b"), NonTerminal("A"), NonTerminal("B")}

C31_DuplicateCheckNeverFires ==
    /\ Len(rules) <= Len(symbols)
    /\ gerr # "DuplicateTerminalProduction"
    /\ \A sym \in NextTokens : \A terminal \in BOOLEAN :
          AddSymbolOutcome(sym, terminal) # "DuplicateTerminalProduction"

\* A terminal was registered after the rule table had been sized: the table
\* has entries, and the last symbol, a terminal, lies past its end.
C31_Witness ==
    /\ rules # << >>
    /\ Len(symbols) > Len(rules)
    /\ (Len(symbols) - 1) \in terminals
    /\ gerr = "ok"

(***************************************************************************)
(* C32.  add_symbol decides from the kind of the token alone whether the   *)
(* symbol is a terminal, whatever its `terminal` flag: the terminal set is *)
(* the set of the ids of Terminal tokens, the outcome of a call does not   *)
(* depend on the flag, a NonTerminal token registered with terminal=True   *)
(* is left out of the set and add_rule accepts it as a head, and a         *)
(* Terminal token registered with terminal=False is put into the set.      *)
(***************************************************************************)
\* The ids of the symbols whose token is a Terminal.
TerminalKindIds == { i - 1 : i \in { j \in 1..Len(symbols) : symbols[j].kind = "Terminal" } }

C32_KindDecidesTerminal ==
    /\ [](/\ terminals = TerminalKindIds
          /\ \A sym \in NextTokens :
                AddSymbolOutcome(sym, TRUE) = AddSymbolOutcome(sym, FALSE))
    /\ [][AddSymbolIsNext =>
            (gerr' = "ok" =>
                /\ terminals' \ {Len(symbols)} = terminals
                /\ (Len(symbols) \in terminals') <=> (Head(todo).sym.kind = "Terminal"))
         ]_vars
    /\ [][(/\ AddRuleIsNext
           /\ Registered(Head(todo).sym)
           /\ symbols[Inverse(Head(todo).sym) + 1].kind = "NonTerminal")
          => gerr' # "TerminalHasProductions"]_vars

\* The caller that registered NonTerminal A with terminal=True and Terminal a
\* with terminal=False has built its grammar: A owns a rule, a is a terminal.
C32_Witness ==
    /\ scn = "flag"
    /\ todo = << >>
    /\ Inverse(NonTerminal("A")) \notin terminals
    /\ rules[Inverse(NonTerminal("A")) + 1] # << >>
    /\ Inverse(Terminal("a")) \in terminals

====
